---- MODULE Spec2Model ----
(***************************************************************************)
(* Model of the diagram session controller of UML_agent's frontend:        *)
(* DiagramGenerator.tsx (session state, handleGenerate, variation          *)
(* selection, New, Import), the controls of PromptInput.tsx, ImportModal   *)
(* and SettingsModal that invoke it, and the telemetry calls it makes.     *)
(*                                                                         *)
(* Texts are sequences of one-character strings so that String.trim() and  *)
(* JavaScript truthiness ('' is falsy) are computed, not assumed.          *)
(* Line numbers refer to src/Frontend/components/DiagramGenerator.tsx      *)
(* unless another file is named.                                           *)
(***************************************************************************)
EXTENDS Integers, Sequences, FiniteSets, TLC

\* ---------------------------------------------------------------- bounds
MaxVariations == 2      \* longest variations array a response body carries
MaxIds == 2             \* diagram identifiers minted after the initial one
MaxPosts == 1           \* telemetry requests awaiting their response at one time
MaxClock == 1           \* ticks of the wall clock
MaxJobs == 4            \* render invocations started in one behaviour

\* ------------------------------------------------------- text universes
SP == " "
PromptTexts == {<<>>, <<SP>>, <<"p">>}
CodeTexts == {<<>>, <<SP>>, <<"A">>}
KeyTexts == {<<>>, <<SP>>, <<"k">>}

\* a text of n characters
Text(c, n) == [k \in 1..n |-> c]

\* EXAMPLE_PROMPTS, by their lengths
EXAMPLE_PROMPTS == {Text("e", n) : n \in {94, 48, 54, 91}}

\* what can be typed or pasted into the textarea when the tracking of prompt
\* edits is looked at: texts around the two thresholds
PromptEdits ==
  {Text("a", n) : n \in {0, 1, 5, 6, 10, 11, 16, 17}} \cup {Text("b", 11), Text("b", 17)}

\* String.prototype.trim(): strip leading and trailing white space
RECURSIVE TrimStart(_)
TrimStart(s) ==
  IF s # <<>> /\ Head(s) = SP THEN TrimStart(Tail(s)) ELSE s

RECURSIVE TrimEnd(_)
TrimEnd(s) ==
  IF s # <<>> /\ s[Len(s)] = SP THEN TrimEnd(SubSeq(s, 1, Len(s) - 1)) ELSE s

Trim(s) == TrimEnd(TrimStart(s))

\* JavaScript truthiness of a string: only '' is falsy
Truthy(s) == s # <<>>

\* useState<number | null>(null): the absent selectedVariationIndex
NoIndex == -1

\* `for (let retry = 0; retry < 5; retry++)` in renderThumbnail
PollLimit == 5

\* `prompt.length > 10` in PromptInput's tracking effect
MinTrackedLength == 10

\* `Math.abs(prompt.length - previousPromptRef.current.length) > 5`
MinLengthChange == 5

\* useRef<string | null>(null): zoomRecordedRef / panRecordedRef holding null
NoRecord == -1

\* localStorage.getItem() of a missing item, and currentSessionId before its
\* first use: null
Null == 0

\* variations[index] of a JavaScript array (0-based); undefined -> falsy
VariationAt(vs, index) ==
  IF index >= 0 /\ index < Len(vs) THEN vs[index + 1] ELSE <<>>

\* ------------------------------------------------------------ messages
MsgEnterPrompt == "Please enter a prompt"
MsgNeedKey == "Please enter your OpenAI API key in settings to continue"
MsgFailedDefault == "Failed to process diagram"
MsgTransport == "Failed to fetch"
MsgParse == "Unexpected token in JSON"
DetailTexts == {"", "Invalid API key"}

\* error.includes('API key')
IncludesApiKey(msg) == msg \in {MsgNeedKey, "Invalid API key"}

EDIT_API_URL == "/diagram/edit"
GENERATE_URL == "/diagram/generate"

VARIABLES
  mermaidCode,              \* useState<string>('')
  variations,               \* useState<string[]>([])
  selectedVariationIndex,   \* useState<number | null>(null)
  isLoading,                \* useState(false)
  error,                    \* useState<string>('')
  isEditing,                \* useState(false)
  diagramId,                \* useState<string>(generateDiagramId())
  currentPrompt,            \* useState<string>('')
  isSettingsOpen,           \* useState(false)
  isImportOpen,             \* useState(false)
  previousMermaidCodeRef,   \* useRef<string>('')
  prompt,                   \* PromptInput: useState('')
  generateMany,             \* PromptInput: useState(false)
  openai_api_key,           \* localStorage item 'openai_api_key'
  nextId,                   \* number of identifiers generateDiagramId() has minted
  inflight,                 \* requests sent to the generation service, not yet answered
  emitted                   \* telemetry events recorded by the last step

\* DiagramDisplay (newer version): zoom and pan tracking
VARIABLES
  zoomEnabled,              \* useState(true)
  panEnabled,               \* useState(true)
  zoomRecordedRef,          \* useRef<string | null>(null)
  panRecordedRef,           \* useRef<string | null>(null)
  zoomTrackTimeoutRef,      \* the pending wheel timer with what its closure holds,
                            \* and (ghost) whether a button recorded a zoom since
  zoomSent,                 \* ghost: a zoom event for diagramId since the identity last changed
  panSent,                  \* ghost: a pan event for diagramId since the identity last changed
  zoomCount                 \* ghost: zoom events for diagramId since diagramId was assigned

\* FeedbackPanel
VARIABLES
  rating,                   \* useState<number>(0)
  feedbackText,             \* useState('')
  isSubmitted,              \* useState(false)
  resetTimer                \* the 3000 ms timer of handleSubmit is pending

\* rlTracking (newer version) and what it talks to
VARIABLES
  uml_agent_user_id,        \* localStorage item USER_ID_KEY
  currentSessionId,         \* let currentSessionId: string | null = null
  nextUuid,                 \* number of values generateUUID() has returned
  now,                      \* the wall clock new Date() reads
  posts,                    \* fetches to RL_ACTION_ENDPOINT awaiting their response
  rejected,                 \* ghost: a promise returned by recordAction rejected
  consoleError,             \* recordAction has called console.error since the page loaded
  handed,                   \* ghost: identity of every event passed to fetch
  pageLoad                  \* ghost: number of reloads so far

\* DiagramDisplay (newer version): rendering
VARIABLES
  thumbs,                   \* state of the mounted VariationThumbnail components, by slot
  slotResult,               \* ghost: how the renderer ended for each mounted slot
  renders,                  \* render invocations that have not ended
  scaffolds,                \* off-screen containers appended to document.body
  imageUrl,                 \* useState<string>(''): the primary preview's image
  renderError,              \* useState<string>(''): the primary preview's error
  nextJob,                  \* ghost: render invocations started so far
  mount                     \* ghost: how many times a thumbnail grid was mounted

sessionVars == <<mermaidCode, variations, selectedVariationIndex, isLoading, error,
                 isEditing, diagramId, currentPrompt, previousMermaidCodeRef>>
\* everything the generator, the prompt input and the modals own
genVars == <<mermaidCode, variations, selectedVariationIndex, isLoading, error,
             isEditing, diagramId, currentPrompt, isSettingsOpen, isImportOpen,
             previousMermaidCodeRef, prompt, generateMany, openai_api_key, nextId,
             inflight>>
vars == <<mermaidCode, variations, selectedVariationIndex, isLoading, error,
          isEditing, diagramId, currentPrompt, isSettingsOpen, isImportOpen,
          previousMermaidCodeRef, prompt, generateMany, openai_api_key, nextId,
          inflight, emitted, zoomEnabled, panEnabled, zoomRecordedRef, panRecordedRef,
          zoomTrackTimeoutRef, zoomSent, panSent, zoomCount,
          rating, feedbackText, isSubmitted, resetTimer,
          uml_agent_user_id, currentSessionId, nextUuid, now, posts, rejected,
          consoleError, handed, pageLoad,
          thumbs, slotResult, renders, scaffolds, imageUrl, renderError, nextJob, mount>>
displayVars == <<zoomEnabled, panEnabled, zoomRecordedRef, panRecordedRef,
                 zoomTrackTimeoutRef, zoomSent, panSent, zoomCount>>
feedbackVars == <<rating, feedbackText, isSubmitted, resetTimer>>
trackingVars == <<uml_agent_user_id, currentSessionId, nextUuid, now, posts, rejected,
                  consoleError, handed, pageLoad>>
renderVars == <<thumbs, slotResult, renders, scaffolds, imageUrl, renderError, nextJob,
                mount>>

\* localStorage.getItem: null when the item was never stored
KeyValues == {[present |-> FALSE, value |-> <<>>]}
             \cup {[present |-> TRUE, value |-> k] : k \in {Trim(t) : t \in KeyTexts}}

\* a gate that lets every submit through
CredentialNotChecked(key) == TRUE

\* `if (!apiKey)`: null and '' are both falsy
CredentialPresent(key) == key.present /\ Truthy(key.value)

\* the session fields a claim compares across a request (ghost snapshot)
Snapshot ==
  [mermaidCode |-> mermaidCode, variations |-> variations,
   selectedVariationIndex |-> selectedVariationIndex, isEditing |-> isEditing,
   diagramId |-> diagramId, currentPrompt |-> currentPrompt]

Init ==
  /\ mermaidCode = <<>>
  /\ variations = <<>>
  /\ selectedVariationIndex = NoIndex
  /\ isLoading = FALSE
  /\ error = ""
  /\ isEditing = FALSE
  /\ diagramId = 0
  /\ currentPrompt = <<>>
  /\ isSettingsOpen = FALSE
  /\ isImportOpen = FALSE
  /\ previousMermaidCodeRef = <<>>
  /\ prompt = <<>>
  /\ generateMany = FALSE
  /\ openai_api_key \in KeyValues
  /\ nextId = 0
  /\ inflight = <<>>
  /\ emitted = <<>>
  /\ zoomEnabled = TRUE
  /\ panEnabled = TRUE
  /\ zoomRecordedRef = NoRecord
  /\ panRecordedRef = NoRecord
  /\ zoomTrackTimeoutRef = <<>>
  /\ zoomSent = FALSE
  /\ panSent = FALSE
  /\ zoomCount = 0
  /\ rating = 0
  /\ feedbackText = <<>>
  /\ isSubmitted = FALSE
  /\ resetTimer = FALSE
  /\ uml_agent_user_id = Null
  /\ currentSessionId = Null
  /\ nextUuid = 0
  /\ now = 0
  /\ posts = <<>>
  /\ rejected = FALSE
  /\ consoleError = FALSE
  /\ handed = {}
  /\ pageLoad = 0
  /\ thumbs = <<>>
  /\ slotResult = <<>>
  /\ renders = {}
  /\ scaffolds = {}
  /\ imageUrl = <<>>
  /\ renderError = ""
  /\ nextJob = 0
  /\ mount = 0


\* ------------------------------------------------------ shared helpers
\* an identifier source that hands out the latest identifier again
generateDiagramIdRepeats == nextId

\* generateDiagramId(): a value no earlier call returned
generateDiagramId == nextId + 1

\* the step recorded no telemetry event
NoTelemetry == emitted' = <<>>

\* a dispatch that looks at isEditing alone
IsEditIgnoringCode(code, editing) == editing

\* `const isEdit = mermaidCode && isEditing`
IsEdit(code, editing) == Truthy(code) /\ editing

\* hasExistingDiagram={!!mermaidCode && isEditing}
hasExistingDiagram == Truthy(mermaidCode) /\ isEditing

\* DiagramDisplay: hasMultipleVariations = variations && variations.length > 1
hasMultipleVariations == Len(variations) > 1

\* PromptInput effect: adopt the parent's currentPrompt when it changed
SyncPrompt(newCurrentPrompt, localPrompt) ==
  IF newCurrentPrompt # currentPrompt /\ newCurrentPrompt # localPrompt
  THEN newCurrentPrompt ELSE localPrompt

\* ------------------------------------------------------ telemetry calls
trackPromptUpdate(p, previousPrompt, id) ==
  [action_type |-> "prompt_update", prompt |-> p, previous_prompt |-> previousPrompt,
   diagram_id |-> id]

trackDiagramGenerated(p, code, id, numVariations) ==
  [action_type |-> "diagram_generated", prompt |-> p, mermaid_code |-> code,
   diagram_id |-> id, num_variations |-> numVariations]

\* an edit reported as a generation
trackDiagramEditedAsGenerated(p, code, id, previousMermaidCode) ==
  [action_type |-> "diagram_generated", prompt |-> p, mermaid_code |-> code,
   diagram_id |-> id, had_previous_diagram |-> Truthy(previousMermaidCode)]

trackDiagramEdited(p, code, id, previousMermaidCode) ==
  [action_type |-> "diagram_edited", prompt |-> p, mermaid_code |-> code,
   diagram_id |-> id, had_previous_diagram |-> Truthy(previousMermaidCode)]

trackNewButton(id, previousMermaidCode) ==
  [action_type |-> "new_button", diagram_id |-> id,
   mermaid_code |-> previousMermaidCode, had_diagram |-> Truthy(previousMermaidCode)]

trackVariationHover(index, id, code, all) ==
  [action_type |-> "variation_hover", variation_index |-> index, diagram_id |-> id,
   mermaid_code |-> code, all_variations |-> all]

trackVariationSelection(index, id, code, all) ==
  [action_type |-> "variation_selection", variation_index |-> index, diagram_id |-> id,
   mermaid_code |-> code, all_variations |-> all]

\* ------------------------------------------------- PromptInput controls
Abs(n) == IF n < 0 THEN 0 - n ELSE n

\* a tracking effect without the threshold: every edit of a tracked prompt
promptEffectEveryEdit(new, previous, id) ==
  IF Truthy(new) /\ new # previous /\ Truthy(previous)
  THEN <<trackPromptUpdate(new, previous, id)>>
  ELSE <<>>

\* the tracking effect on [prompt, diagramId]. previousPromptRef.current is
\* assigned the prompt at the end of every run, so when the prompt changes the
\* ref holds the prompt of the render before
promptEffect(new, previous, id) ==
  IF /\ Truthy(new) /\ new # previous /\ Truthy(previous)
     /\ Len(new) > MinTrackedLength
     /\ Abs(Len(new) - Len(previous)) > MinLengthChange
  THEN <<trackPromptUpdate(new, previous, id)>>
  ELSE <<>>

\* textarea onChange (disabled={isLoading}), then the tracking effect
TypePrompt(s) ==
  /\ ~isLoading
  /\ prompt' = s
  /\ emitted' = promptEffect(s, prompt, diagramId)
  /\ UNCHANGED <<sessionVars, isSettingsOpen, isImportOpen, generateMany,
                 openai_api_key, nextId, inflight>>

\* an example button (disabled={isLoading}): handleExampleClick -> setPrompt
handleExampleClick(example) == TypePrompt(example)

\* the One/Many switch (rendered when !hasExistingDiagram, disabled={isLoading})
ToggleMany ==
  /\ ~hasExistingDiagram
  /\ ~isLoading
  /\ generateMany' = ~generateMany
  /\ NoTelemetry
  /\ UNCHANGED <<sessionVars, isSettingsOpen, isImportOpen, prompt,
                 openai_api_key, nextId, inflight>>

\* a submit button that stays enabled while a request is in flight
SubmitEnabledIgnoringLoading == Truthy(Trim(prompt))

\* submit button: disabled={isLoading || !prompt.trim()}
SubmitEnabled == ~isLoading /\ Truthy(Trim(prompt))

\* the request handleGenerate passes to fetch, with what its closure keeps
\* for the continuation after the await (pre is a ghost snapshot)
Request(p, numVariations, key) ==
  LET isEdit == IsEdit(mermaidCode, isEditing) IN
  [url |-> IF isEdit THEN EDIT_API_URL ELSE GENERATE_URL,
   body |-> IF isEdit THEN [prompt |-> p, existing_mermaid_code |-> mermaidCode]
                      ELSE [prompt |-> p, num_variations |-> numVariations],
   key |-> key.value,
   prompt |-> p,
   isEdit |-> isEdit,
   diagramId |-> diagramId,
   numVariations |-> numVariations,
   pre |-> Snapshot]

\* handleGenerate up to its await
handleGenerate(p, numVariations) ==
  IF ~Truthy(Trim(p))
  THEN /\ error' = MsgEnterPrompt
       /\ UNCHANGED <<mermaidCode, variations, selectedVariationIndex, isLoading,
                      isEditing, diagramId, currentPrompt, previousMermaidCodeRef,
                      isSettingsOpen, prompt, inflight>>
  ELSE IF ~CredentialPresent(openai_api_key)
  THEN /\ isSettingsOpen' = TRUE
       /\ error' = MsgNeedKey
       /\ UNCHANGED <<mermaidCode, variations, selectedVariationIndex, isLoading,
                      isEditing, diagramId, currentPrompt, previousMermaidCodeRef,
                      prompt, inflight>>
  ELSE /\ isLoading' = TRUE
       /\ error' = ""
       /\ variations' = <<>>
       /\ selectedVariationIndex' = NoIndex
       /\ previousMermaidCodeRef' = mermaidCode
       /\ currentPrompt' = p
       /\ prompt' = SyncPrompt(p, prompt)
       /\ inflight' = Append(inflight, Request(p, numVariations, openai_api_key))
       /\ UNCHANGED <<mermaidCode, isEditing, diagramId, isSettingsOpen>>

\* PromptInput handleSubmit -> onGenerate(prompt, generateMany ? 3 : 1)
Submit ==
  /\ SubmitEnabled
  /\ handleGenerate(prompt, IF generateMany THEN 3 ELSE 1)
  /\ NoTelemetry
  /\ UNCHANGED <<isImportOpen, generateMany, openai_api_key, nextId>>


\* ------------------------------------------- generation service answers
\* an optional JSON field: <<>> when missing, <<v>> when present
Optional(S) == {<<>>} \cup {<<v>> : v \in S}

RECURSIVE ArraysUpTo(_)
ArraysUpTo(n) ==
  IF n = 0 THEN {<<>>}
  ELSE LET shorter == ArraysUpTo(n - 1) IN
       shorter \cup {Append(a, c) : a \in {b \in shorter : Len(b) = n - 1}, c \in CodeTexts}

\* 2xx bodies: {mermaid_code?: string, variations?: string[]}
ResponseBodies ==
  [mermaid_code : Optional(CodeTexts), variations : Optional(ArraysUpTo(MaxVariations))]

\* every way the request can fail: non-2xx with a detail, non-2xx or 2xx with
\* a body response.json() rejects, or fetch itself rejecting
Failures ==
  {[kind |-> "http", detail |-> d] : d \in DetailTexts}
  \cup {[kind |-> k, detail |-> ""] : k \in {"unparsable", "transport"}}

\* the message of the Error that reaches the catch block
FailureMessage(f) ==
  CASE f.kind = "http" -> IF f.detail # "" THEN f.detail ELSE MsgFailedDefault
    [] f.kind = "transport" -> MsgTransport
    [] OTHER -> MsgParse

\* a branch test that also takes a one-element array (length > 0)
StoresAnyArray(data) == data.variations # <<>> /\ Len(data.variations[1]) > 0

\* `data.variations && data.variations.length > 1`
HasManyVariations(data) == data.variations # <<>> /\ Len(data.variations[1]) > 1

\* a newMermaidCode taken from data.mermaid_code whatever the candidates
NewMermaidCodeFromField(data) ==
  IF data.mermaid_code # <<>> THEN data.mermaid_code[1] ELSE <<>>

\* newMermaidCode: data.variations[0], or data.mermaid_code || ''
NewMermaidCode(data) ==
  IF HasManyVariations(data) THEN data.variations[1][1]
  ELSE IF data.mermaid_code # <<>> THEN data.mermaid_code[1] ELSE <<>>

\* inflight without its i-th request
Without(q, i) == SubSeq(q, 1, i - 1) \o SubSeq(q, i + 1, Len(q))

\* a success path that does not reach setIsLoading(false)
ResponseOkStaysLoading(i, data) ==
  LET r == inflight[i]
      newMermaidCode == NewMermaidCode(data) IN
  /\ mermaidCode' = newMermaidCode
  /\ variations' = IF HasManyVariations(data) THEN data.variations[1] ELSE <<>>
  /\ selectedVariationIndex' = IF HasManyVariations(data) THEN 0 ELSE NoIndex
  /\ emitted' = IF r.isEdit
                THEN <<trackDiagramEdited(r.prompt, newMermaidCode, r.diagramId,
                                          previousMermaidCodeRef)>>
                ELSE <<trackDiagramGenerated(r.prompt, newMermaidCode, r.diagramId,
                                             r.numVariations)>>
  /\ isEditing' = TRUE
  /\ UNCHANGED isLoading
  /\ inflight' = Without(inflight, i)
  /\ UNCHANGED <<error, diagramId, currentPrompt, previousMermaidCodeRef,
                 isSettingsOpen, isImportOpen, prompt, generateMany,
                 openai_api_key, nextId>>

\* handleGenerate after the await: a 2xx response whose body parsed
ResponseOk(i, data) ==
  LET r == inflight[i]
      newMermaidCode == NewMermaidCode(data) IN
  /\ mermaidCode' = newMermaidCode
  /\ variations' = IF HasManyVariations(data) THEN data.variations[1] ELSE <<>>
  /\ selectedVariationIndex' = IF HasManyVariations(data) THEN 0 ELSE NoIndex
  /\ emitted' = IF r.isEdit
                THEN <<trackDiagramEdited(r.prompt, newMermaidCode, r.diagramId,
                                          previousMermaidCodeRef)>>
                ELSE <<trackDiagramGenerated(r.prompt, newMermaidCode, r.diagramId,
                                             r.numVariations)>>
  /\ isEditing' = TRUE
  /\ isLoading' = FALSE
  /\ inflight' = Without(inflight, i)
  /\ UNCHANGED <<error, diagramId, currentPrompt, previousMermaidCodeRef,
                 isSettingsOpen, isImportOpen, prompt, generateMany,
                 openai_api_key, nextId>>

\* a catch block that also clears the diagram
ResponseFailClearsCode(i, f) ==
  /\ error' = FailureMessage(f)
  /\ isLoading' = FALSE
  /\ mermaidCode' = <<>>
  /\ inflight' = Without(inflight, i)
  /\ emitted' = <<>>
  /\ UNCHANGED <<variations, selectedVariationIndex, isEditing, diagramId,
                 currentPrompt, previousMermaidCodeRef, isSettingsOpen, isImportOpen,
                 prompt, generateMany, openai_api_key, nextId>>

\* handleGenerate after the await: the catch block and the finally block
ResponseFail(i, f) ==
  /\ error' = FailureMessage(f)
  /\ isLoading' = FALSE
  /\ inflight' = Without(inflight, i)
  /\ emitted' = <<>>
  /\ UNCHANGED <<mermaidCode, variations, selectedVariationIndex, isEditing, diagramId,
                 currentPrompt, previousMermaidCodeRef, isSettingsOpen, isImportOpen,
                 prompt, generateMany, openai_api_key, nextId>>

\* --------------------------------------------------- variation controls
\* VariationThumbnail onSelect -> handleSelectVariation(index), trackVariationHover
SelectVariation(index) ==
  /\ hasMultipleVariations
  /\ IF Truthy(VariationAt(variations, index))
     THEN /\ mermaidCode' = VariationAt(variations, index)
          /\ selectedVariationIndex' = index
     ELSE UNCHANGED <<mermaidCode, selectedVariationIndex>>
  /\ emitted' = <<trackVariationHover(index, diagramId, VariationAt(variations, index),
                                      variations)>>
  /\ UNCHANGED <<variations, isLoading, error, isEditing, diagramId, currentPrompt,
                 previousMermaidCodeRef, isSettingsOpen, isImportOpen, prompt,
                 generateMany, openai_api_key, nextId, inflight>>

\* a confirmation that also starts a new diagram identity
ConfirmSelectionNewId ==
  /\ hasMultipleVariations
  /\ selectedVariationIndex # NoIndex
  /\ nextId < MaxIds
  /\ mermaidCode' = VariationAt(variations, selectedVariationIndex)
  /\ variations' = <<>>
  /\ selectedVariationIndex' = NoIndex
  /\ diagramId' = generateDiagramId
  /\ nextId' = nextId + 1
  /\ emitted' = <<trackVariationSelection(selectedVariationIndex, diagramId,
                    VariationAt(variations, selectedVariationIndex), variations)>>
  /\ UNCHANGED <<isLoading, error, isEditing, currentPrompt,
                 previousMermaidCodeRef, isSettingsOpen, isImportOpen, prompt,
                 generateMany, openai_api_key, inflight>>

\* "Use This One" -> handleConfirmSelection, trackVariationSelection
ConfirmSelection ==
  /\ hasMultipleVariations
  /\ selectedVariationIndex # NoIndex
  /\ IF Truthy(VariationAt(variations, selectedVariationIndex))
     THEN /\ mermaidCode' = VariationAt(variations, selectedVariationIndex)
          /\ variations' = <<>>
          /\ selectedVariationIndex' = NoIndex
          /\ emitted' = <<trackVariationSelection(selectedVariationIndex, diagramId,
                            VariationAt(variations, selectedVariationIndex), variations)>>
     ELSE /\ UNCHANGED <<mermaidCode, variations, selectedVariationIndex>>
          /\ emitted' = <<>>
  /\ UNCHANGED <<isLoading, error, isEditing, diagramId, currentPrompt,
                 previousMermaidCodeRef, isSettingsOpen, isImportOpen, prompt,
                 generateMany, openai_api_key, nextId, inflight>>


\* ------------------------------------------------------- New and Import
\* a reset that leaves the session in editing mode
NewClickStaysEditing ==
  /\ hasExistingDiagram
  /\ ~isLoading
  /\ nextId < MaxIds
  /\ emitted' = <<trackNewButton(diagramId, mermaidCode)>>
  /\ diagramId' = generateDiagramId
  /\ nextId' = nextId + 1
  /\ mermaidCode' = <<>>
  /\ variations' = <<>>
  /\ selectedVariationIndex' = NoIndex
  /\ error' = ""
  /\ currentPrompt' = <<>>
  /\ previousMermaidCodeRef' = <<>>
  /\ prompt' = SyncPrompt(<<>>, <<>>)
  /\ UNCHANGED <<isEditing, isLoading, isSettingsOpen, isImportOpen, generateMany,
                 openai_api_key, inflight>>

\* New button (rendered when hasExistingDiagram, disabled={isLoading}):
\* handleNewClick -> setPrompt(''), handleNew
NewClick ==
  /\ hasExistingDiagram
  /\ ~isLoading
  /\ nextId < MaxIds
  /\ emitted' = <<trackNewButton(diagramId, mermaidCode)>>
  /\ diagramId' = generateDiagramId
  /\ nextId' = nextId + 1
  /\ mermaidCode' = <<>>
  /\ variations' = <<>>
  /\ selectedVariationIndex' = NoIndex
  /\ isEditing' = FALSE
  /\ error' = ""
  /\ currentPrompt' = <<>>
  /\ previousMermaidCodeRef' = <<>>
  /\ prompt' = SyncPrompt(<<>>, <<>>)
  /\ UNCHANGED <<isLoading, isSettingsOpen, isImportOpen, generateMany,
                 openai_api_key, inflight>>

\* header Import button: onClick={() => setIsImportOpen(true)}
OpenImport ==
  /\ ~isImportOpen
  /\ isImportOpen' = TRUE
  /\ NoTelemetry
  /\ UNCHANGED <<sessionVars, isSettingsOpen, prompt, generateMany,
                 openai_api_key, nextId, inflight>>

\* ImportModal Cancel, backdrop or Escape: onClose
CloseImport ==
  /\ isImportOpen
  /\ isImportOpen' = FALSE
  /\ NoTelemetry
  /\ UNCHANGED <<sessionVars, isSettingsOpen, prompt, generateMany,
                 openai_api_key, nextId, inflight>>

\* ImportModal handleSubmit (only if code.trim()) -> handleImport(code), onClose
ImportSubmit(code) ==
  /\ isImportOpen
  /\ Truthy(Trim(code))
  /\ nextId < MaxIds
  /\ mermaidCode' = code
  /\ isEditing' = TRUE
  /\ variations' = <<>>
  /\ selectedVariationIndex' = NoIndex
  /\ diagramId' = generateDiagramId
  /\ nextId' = nextId + 1
  /\ emitted' = <<trackNewButton(diagramId, code)>>
  /\ isImportOpen' = FALSE
  /\ UNCHANGED <<isLoading, error, currentPrompt, previousMermaidCodeRef,
                 isSettingsOpen, prompt, generateMany, openai_api_key, inflight>>

\* ------------------------------------------------------- SettingsModal
\* header Settings button: onClick={() => setIsSettingsOpen(true)}
OpenSettings ==
  /\ ~isSettingsOpen
  /\ isSettingsOpen' = TRUE
  /\ NoTelemetry
  /\ UNCHANGED <<sessionVars, isImportOpen, prompt, generateMany,
                 openai_api_key, nextId, inflight>>

\* SettingsModal close button or Escape: onClose
CloseSettings ==
  /\ isSettingsOpen
  /\ isSettingsOpen' = FALSE
  /\ NoTelemetry
  /\ UNCHANGED <<sessionVars, isImportOpen, prompt, generateMany,
                 openai_api_key, nextId, inflight>>

\* SettingsModal handleSave: setItem(apiKey.trim()), onSave(apiKey.trim()), onClose
SaveSettings(typed) ==
  /\ isSettingsOpen
  /\ openai_api_key' = [present |-> TRUE, value |-> Trim(typed)]
  /\ error' = IF Truthy(Trim(typed)) /\ IncludesApiKey(error) THEN "" ELSE error
  /\ isSettingsOpen' = FALSE
  /\ NoTelemetry
  /\ UNCHANGED <<mermaidCode, variations, selectedVariationIndex, isLoading, isEditing,
                 diagramId, currentPrompt, previousMermaidCodeRef, isImportOpen,
                 prompt, generateMany, nextId, inflight>>


\* ------------------------------------------- DiagramDisplay: zoom and pan
\* effectiveDiagramId = diagramId || ...: the generator always passes an
\* identifier, so it is the session's diagramId
effectiveDiagramId == diagramId

trackZoomToggle(enabled, id, code) ==
  [action_type |-> "zoom", diagram_id |-> id, mermaid_code |-> code,
   enabled |-> enabled]

trackPanToggle(enabled, id, code) ==
  [action_type |-> "pan", diagram_id |-> id, mermaid_code |-> code,
   enabled |-> enabled]

\* the step recorded an event of this type tagged with this identifier
Recorded(type, id) ==
  \E k \in 1..Len(emitted') :
    emitted'[k].action_type = type /\ emitted'[k].diagram_id = id

\* the step is a generation, an edit, a variation confirmation or a reset
\* (New, Import), told by the event it records
IdentityStep ==
  \E k \in 1..Len(emitted') :
    emitted'[k].action_type \in {"diagram_generated", "diagram_edited",
                                 "variation_selection", "new_button"}

\* ghost bookkeeping of the zoom and pan events of the step
Bookkeeping ==
  /\ zoomSent' = IF IdentityStep THEN FALSE
                 ELSE IF Recorded("zoom", diagramId) THEN TRUE ELSE zoomSent
  /\ panSent' = IF IdentityStep THEN FALSE
                ELSE IF Recorded("pan", diagramId) THEN TRUE ELSE panSent
  /\ zoomCount' = IF diagramId' # diagramId THEN 0
                  ELSE IF Recorded("zoom", diagramId) /\ zoomCount < 2
                  THEN zoomCount + 1 ELSE zoomCount

\* a reset effect that looks at diagramId alone
LatchResetOnNewIdOnly ==
  IF diagramId' # diagramId
  THEN zoomRecordedRef' = NoRecord /\ panRecordedRef' = NoRecord
  ELSE UNCHANGED <<zoomRecordedRef, panRecordedRef>>

\* useEffect(..., [mermaidCode, diagramId]): clear both latches when either
\* dependency changed in the step
LatchResetEffect ==
  IF mermaidCode' # mermaidCode \/ diagramId' # diagramId
  THEN zoomRecordedRef' = NoRecord /\ panRecordedRef' = NoRecord
  ELSE UNCHANGED <<zoomRecordedRef, panRecordedRef>>

\* what DiagramDisplay does when a DiagramGenerator or PromptInput handler ran
DisplayFollows ==
  /\ LatchResetEffect
  /\ Bookkeeping
  /\ UNCHANGED <<zoomEnabled, panEnabled, zoomTrackTimeoutRef>>

\* VariationThumbnail onSelect: onSelectVariation(index), trackVariationHover,
\* then both latches set to null
onSelect(index) ==
  /\ SelectVariation(index)
  /\ zoomRecordedRef' = NoRecord
  /\ panRecordedRef' = NoRecord
  /\ Bookkeeping
  /\ UNCHANGED <<zoomEnabled, panEnabled, zoomTrackTimeoutRef>>

\* "Use This One" onClick: onConfirmSelection(), and when the selected
\* variation is truthy trackVariationSelection and both latches set to null
UseThisOne ==
  /\ ConfirmSelection
  /\ IF Truthy(VariationAt(variations, selectedVariationIndex))
     THEN zoomRecordedRef' = NoRecord /\ panRecordedRef' = NoRecord
     ELSE LatchResetEffect
  /\ Bookkeeping
  /\ UNCHANGED <<zoomEnabled, panEnabled, zoomTrackTimeoutRef>>

\* the zoom controls are rendered when !isLoading && !renderError && imageUrl;
\* imageUrl is set only by a finished render, and an empty or blank
\* mermaidCode renders to nothing
ControlsShown == ~isLoading /\ Truthy(Trim(mermaidCode))

\* ghost: a button recorded a zoom event while the wheel timer was pending
ButtonRecorded ==
  [k \in 1..Len(zoomTrackTimeoutRef) |-> [zoomTrackTimeoutRef[k] EXCEPT !.recorded = TRUE]]

\* the part handleZoomIn and handleZoomOut share: record once per identifier
RecordZoom ==
  IF zoomRecordedRef # effectiveDiagramId
  THEN /\ emitted' = <<trackZoomToggle(TRUE, effectiveDiagramId, mermaidCode)>>
       /\ zoomRecordedRef' = effectiveDiagramId
       /\ zoomTrackTimeoutRef' = ButtonRecorded
  ELSE /\ emitted' = <<>>
       /\ UNCHANGED <<zoomRecordedRef, zoomTrackTimeoutRef>>

\* Zoom In button (disabled={!zoomEnabled})
handleZoomIn ==
  /\ ControlsShown
  /\ zoomEnabled
  /\ RecordZoom
  /\ UNCHANGED <<genVars, zoomEnabled, panEnabled, panRecordedRef>>
  /\ Bookkeeping

\* Zoom Out button (disabled={!zoomEnabled})
handleZoomOut ==
  /\ ControlsShown
  /\ zoomEnabled
  /\ RecordZoom
  /\ UNCHANGED <<genVars, zoomEnabled, panEnabled, panRecordedRef>>
  /\ Bookkeeping

\* onWheel of the preview container: while the latch differs from the
\* identifier, replace the pending timer by one closing over the identifier
\* and the source of this render
handleWheel ==
  /\ zoomEnabled
  /\ zoomTrackTimeoutRef' = IF zoomRecordedRef # effectiveDiagramId
                            THEN <<[diagramId |-> effectiveDiagramId,
                                    mermaidCode |-> mermaidCode,
                                    recorded |-> FALSE]>>
                            ELSE zoomTrackTimeoutRef
  /\ emitted' = <<>>
  /\ UNCHANGED <<genVars, zoomEnabled, panEnabled, zoomRecordedRef, panRecordedRef>>
  /\ Bookkeeping

\* the wheel timer's callback, 300 ms after the last wheel event
WheelTimerFires ==
  /\ zoomTrackTimeoutRef # <<>>
  /\ LET t == zoomTrackTimeoutRef[1] IN
     IF zoomRecordedRef # t.diagramId
     THEN /\ emitted' = <<trackZoomToggle(TRUE, t.diagramId, t.mermaidCode)>>
          /\ zoomRecordedRef' = t.diagramId
     ELSE /\ emitted' = <<>>
          /\ UNCHANGED zoomRecordedRef
  /\ zoomTrackTimeoutRef' = <<>>
  /\ UNCHANGED <<genVars, zoomEnabled, panEnabled, panRecordedRef>>
  /\ Bookkeeping

\* the part handleMouseDown and handleTouchStart share
RecordPan ==
  IF panRecordedRef # effectiveDiagramId
  THEN /\ emitted' = <<trackPanToggle(TRUE, effectiveDiagramId, mermaidCode)>>
       /\ panRecordedRef' = effectiveDiagramId
  ELSE /\ emitted' = <<>>
       /\ UNCHANGED panRecordedRef

\* onMouseDown of the preview container (left button)
handleMouseDown ==
  /\ panEnabled
  /\ RecordPan
  /\ UNCHANGED <<genVars, zoomEnabled, panEnabled, zoomRecordedRef, zoomTrackTimeoutRef>>
  /\ Bookkeeping

\* onTouchStart of the preview container (one finger)
handleTouchStart ==
  /\ panEnabled
  /\ RecordPan
  /\ UNCHANGED <<genVars, zoomEnabled, panEnabled, zoomRecordedRef, zoomTrackTimeoutRef>>
  /\ Bookkeeping

\* Zoom toggle button: setZoomEnabled(prev => !prev), not tracked
handleZoomToggle ==
  /\ ControlsShown
  /\ zoomEnabled' = ~zoomEnabled
  /\ emitted' = <<>>
  /\ UNCHANGED <<genVars, panEnabled, zoomRecordedRef, panRecordedRef, zoomTrackTimeoutRef>>
  /\ Bookkeeping

\* Pan toggle button: setPanEnabled(prev => !prev), not tracked
handlePanToggle ==
  /\ ControlsShown
  /\ panEnabled' = ~panEnabled
  /\ emitted' = <<>>
  /\ UNCHANGED <<genVars, zoomEnabled, zoomRecordedRef, panRecordedRef, zoomTrackTimeoutRef>>
  /\ Bookkeeping

\* ------------------------------------------------ rlTracking: delivery
\* the n + 1 characters standing for new Date().toISOString() at tick n
toISOString(n) == [k \in 1..(n + 1) |-> "T"]

\* payload.timestamp as a caller may pass it: missing, '' or a string
GivenTimestamps == Optional({<<>>, <<"c">>, <<"T">>})

\* a stamping that overwrites whatever the caller passed
TimestampAlwaysNow(given) == toISOString(now)

\* `if (!payload.timestamp) payload.timestamp = new Date().toISOString()`
Timestamp(given) ==
  IF given # <<>> /\ Truthy(given[1]) THEN given[1] ELSE toISOString(now)

\* generateUUID(): the k-th value minted in this step, like no earlier one
generateUUID(k) == nextUuid + k

\* a getOrCreateUserId that never stores what it generated
getOrCreateUserIdUnstored ==
  IF uml_agent_user_id # Null
  THEN [userId |-> uml_agent_user_id, stored |-> uml_agent_user_id, minted |-> 0]
  ELSE [userId |-> generateUUID(1), stored |-> uml_agent_user_id, minted |-> 1]

\* getOrCreateUserId(): the stored item, or a new value that is stored
getOrCreateUserId ==
  IF uml_agent_user_id # Null
  THEN [userId |-> uml_agent_user_id, stored |-> uml_agent_user_id, minted |-> 0]
  ELSE [userId |-> generateUUID(1), stored |-> generateUUID(1), minted |-> 1]

\* getSessionId(): the module variable, assigned on first use
getSessionId(minted) ==
  IF currentSessionId # Null
  THEN [sessionId |-> currentSessionId, minted |-> minted]
  ELSE [sessionId |-> generateUUID(minted + 1), minted |-> minted + 1]

\* recordAction(payload) up to its await: stamp, identify, fetch
recordAction(event, given) ==
  LET u == getOrCreateUserId
      g == getSessionId(u.minted)
      post == [event |-> event, timestamp |-> Timestamp(given),
               user_id |-> u.userId, session_id |-> g.sessionId] IN
  /\ Len(posts) < MaxPosts
  /\ uml_agent_user_id' = u.stored
  /\ currentSessionId' = g.sessionId
  /\ nextUuid' = nextUuid + g.minted
  /\ posts' = Append(posts, post)
  /\ handed' = handed \cup {[user_id |-> u.userId, session_id |-> g.sessionId,
                             pageLoad |-> pageLoad]}
  /\ UNCHANGED <<now, rejected, consoleError, pageLoad>>

\* every track* helper passes its payload to recordAction without a timestamp
Delivers ==
  IF emitted' = <<>> THEN UNCHANGED trackingVars
  ELSE recordAction(emitted'[1], <<>>)

\* recordAction called with a payload of the caller's own making
recordActionDirect(given) ==
  /\ emitted' = <<[action_type |-> "tab_away", diagram_id |-> diagramId]>>
  /\ recordAction(emitted'[1], given)
  /\ UNCHANGED genVars

\* the clock moves on
Tick ==
  /\ now < MaxClock
  /\ now' = now + 1
  /\ emitted' = <<>>
  /\ UNCHANGED <<genVars, uml_agent_user_id, currentSessionId, nextUuid, posts,
                 rejected, consoleError, handed, pageLoad>>

\* recordAction after the await, response.ok: console.log
DeliveryOk(i) ==
  /\ posts' = Without(posts, i)
  /\ emitted' = <<>>
  /\ UNCHANGED <<genVars, uml_agent_user_id, currentSessionId, nextUuid, now,
                 rejected, consoleError, handed, pageLoad>>

\* how a delivery fails: a non-2xx status with or without a JSON body, or
\* fetch itself rejecting
DeliveryFailures == {"status", "status-unparsable", "transport"}

\* what becomes of recordAction's promise: the non-2xx branch logs (a body
\* that does not parse is replaced by {}), the catch block logs; none rethrows
Settles(f) ==
  CASE f = "status" -> "resolved"
    [] f = "status-unparsable" -> "resolved"
    [] OTHER -> "resolved"

\* a failure handling that sends the payload again
DeliveryFailsRetrying(i, f) ==
  /\ posts' = Append(Without(posts, i), posts[i])
  /\ rejected' = (rejected \/ Settles(f) = "rejected")
  /\ consoleError' = TRUE
  /\ emitted' = <<>>
  /\ UNCHANGED <<genVars, uml_agent_user_id, currentSessionId, nextUuid, now,
                 handed, pageLoad>>

\* recordAction after the await, !response.ok or an exception: console.error
DeliveryFails(i, f) ==
  /\ posts' = Without(posts, i)
  /\ rejected' = (rejected \/ Settles(f) = "rejected")
  /\ consoleError' = TRUE
  /\ emitted' = <<>>
  /\ UNCHANGED <<genVars, uml_agent_user_id, currentSessionId, nextUuid, now,
                 handed, pageLoad>>

\* ------------------------------------------------------- FeedbackPanel
\* <FeedbackPanel> is rendered when mermaidCode && !hasMultipleVariations &&
\* !isLoading, and shows its form unless isSubmitted
PanelShown == Truthy(mermaidCode) /\ ~hasMultipleVariations /\ ~isLoading

\* an unmounted panel loses its state; a timer it left behind has no effect
PanelFollows ==
  IF Truthy(mermaidCode') /\ Len(variations') <= 1 /\ ~isLoading'
  THEN UNCHANGED feedbackVars
  ELSE rating' = 0 /\ feedbackText' = <<>> /\ isSubmitted' = FALSE /\ resetTimer' = FALSE

trackFeedback(r, text, id, code) ==
  [action_type |-> "feedback", rating |-> r, feedback_text |-> text,
   diagram_id |-> id, mermaid_code |-> code]

\* the five star buttons
handleStarClick(value) ==
  /\ PanelShown /\ ~isSubmitted
  /\ rating' = value
  /\ emitted' = <<>>
  /\ UNCHANGED <<genVars, feedbackText, isSubmitted, resetTimer>>

\* textarea onChange
TypeFeedback(text) ==
  /\ PanelShown /\ ~isSubmitted
  /\ feedbackText' = text
  /\ emitted' = <<>>
  /\ UNCHANGED <<genVars, rating, isSubmitted, resetTimer>>

\* a submit handler without its rating test
RatingNotRequired(r) == TRUE

\* `if (rating === 0) return` negated
RatingGiven(r) == r # 0

\* form onSubmit -> handleSubmit: trackFeedback, then the thank-you state and
\* the timer that clears it
FeedbackSubmit ==
  /\ PanelShown /\ ~isSubmitted
  /\ IF RatingGiven(rating)
     THEN /\ emitted' = <<trackFeedback(rating, feedbackText, effectiveDiagramId,
                                        mermaidCode)>>
          /\ isSubmitted' = TRUE
          /\ resetTimer' = TRUE
     ELSE /\ emitted' = <<>>
          /\ UNCHANGED <<isSubmitted, resetTimer>>
  /\ UNCHANGED <<genVars, rating, feedbackText>>

\* the timer of handleSubmit, 3000 ms later
FeedbackResetFires ==
  /\ resetTimer
  /\ rating' = 0
  /\ feedbackText' = <<>>
  /\ isSubmitted' = FALSE
  /\ resetTimer' = FALSE
  /\ emitted' = <<>>
  /\ UNCHANGED genVars

\* the page is loaded again: component and module state start over, with a
\* new initial diagramId; localStorage stays
Reload ==
  /\ nextId < MaxIds
  /\ mermaidCode' = <<>>
  /\ variations' = <<>>
  /\ selectedVariationIndex' = NoIndex
  /\ isLoading' = FALSE
  /\ error' = ""
  /\ isEditing' = FALSE
  /\ diagramId' = generateDiagramId
  /\ nextId' = nextId + 1
  /\ currentPrompt' = <<>>
  /\ isSettingsOpen' = FALSE
  /\ isImportOpen' = FALSE
  /\ previousMermaidCodeRef' = <<>>
  /\ prompt' = <<>>
  /\ generateMany' = FALSE
  /\ inflight' = <<>>
  /\ emitted' = <<>>
  /\ zoomEnabled' = TRUE
  /\ panEnabled' = TRUE
  /\ zoomRecordedRef' = NoRecord
  /\ panRecordedRef' = NoRecord
  /\ zoomTrackTimeoutRef' = <<>>
  /\ zoomSent' = FALSE
  /\ panSent' = FALSE
  /\ zoomCount' = 0
  /\ rating' = 0
  /\ feedbackText' = <<>>
  /\ isSubmitted' = FALSE
  /\ resetTimer' = FALSE
  /\ currentSessionId' = Null
  /\ posts' = <<>>
  /\ consoleError' = FALSE
  /\ pageLoad' = pageLoad + 1
  /\ thumbs' = <<>>
  /\ slotResult' = <<>>
  /\ renders' = {}
  /\ scaffolds' = {}
  /\ imageUrl' = <<>>
  /\ renderError' = ""
  /\ UNCHANGED <<nextJob, mount>>
  /\ UNCHANGED <<openai_api_key, uml_agent_user_id, nextUuid, now, rejected, handed>>

\* what a specification leaves at rest when it follows other parts of the page
Unobserved == UNCHANGED <<feedbackVars, trackingVars, renderVars>>

\* ------------------------------------------- DiagramDisplay: rendering
MsgRenderFailed == "Failed to render diagram. The generated code might be invalid."

\* the data URL made from the svg the renderer drew for a source
Image(code) == <<code>>

\* div.id of a thumbnail's scaffold: variation-thumb-<index>-<time>-<random>,
\* different for every invocation
uniqueId(job) == [kind |-> "variation-thumb", index |-> job.index, stamp |-> job.job]

\* div.id of the primary preview's scaffold: the diagramId prop
primaryId(id) == [kind |-> "diagram", index |-> NoIndex, stamp |-> id]

\* one state for all slots: what one slot sets, every slot shows
SharedState(ts, k, new) == [j \in DOMAIN ts |-> new]

\* every VariationThumbnail has its own useState: a setter reaches one slot
OwnState(ts, k, new) == [ts EXCEPT ![k] = new]

\* the thumbnail grid is mounted by this step (variations arrive)
Mounting == Len(variations') > 1 /\ variations' # variations

\* the primary render effect runs in this step, and has a source to render
PrimaryStarts ==
  (mermaidCode' # mermaidCode \/ diagramId' # diagramId) /\ Truthy(mermaidCode')

\* VariationThumbnail's effect on mount, up to its first await: an empty
\* source clears the slot, any other starts renderThumbnail
MountedSlot(code) ==
  [thumbnailUrl |-> <<>>, isRendering |-> Truthy(code), renderError |-> FALSE,
   starts |-> IF Truthy(code) THEN 1 ELSE 0, polls |-> 0]

ThumbJobs ==
  {[job |-> nextJob + k, kind |-> "thumb", index |-> k - 1, mount |-> mount + 1,
    code |-> variations'[k], phase |-> "stagger"] :
     k \in {j \in 1..Len(variations') : Truthy(variations'[j])}}

\* renderDiagram up to its await: the job and its scaffold, labelled diagramId
PrimaryJob(n) ==
  [job |-> n, kind |-> "primary", index |-> NoIndex, mount |-> 0,
   code |-> mermaidCode', phase |-> "run"]

\* what the render effects of DiagramDisplay and of its thumbnails do when a
\* DiagramGenerator handler changed their props
RenderFollows ==
  LET used == IF Mounting THEN Len(variations') ELSE 0
      n == nextJob + used + 1 IN
  /\ nextJob' = IF PrimaryStarts THEN n ELSE nextJob + used
  /\ nextJob' <= MaxJobs
  /\ mount' = IF Mounting THEN mount + 1 ELSE mount
  /\ thumbs' = IF Mounting THEN [k \in 1..Len(variations') |-> MountedSlot(variations'[k])]
                ELSE IF Len(variations') > 1 THEN thumbs ELSE <<>>
  /\ slotResult' = IF Mounting
                    THEN [k \in 1..Len(variations') |->
                            IF Truthy(variations'[k]) THEN "pending" ELSE "empty"]
                    ELSE IF Len(variations') > 1 THEN slotResult ELSE <<>>
  /\ renders' = renders \cup (IF Mounting THEN ThumbJobs ELSE {})
                         \cup (IF PrimaryStarts THEN {PrimaryJob(n)} ELSE {})
  /\ scaffolds' = scaffolds \cup
                   (IF PrimaryStarts
                    THEN {[job |-> n, label |-> primaryId(diagramId'), timer |-> FALSE]}
                    ELSE {})
  /\ IF mermaidCode' # mermaidCode \/ diagramId' # diagramId
     THEN imageUrl' = <<>> /\ renderError' = ""
     ELSE UNCHANGED <<imageUrl, renderError>>

\* a thumbnail's setters act on its own component while it is still mounted
SetSlot(job, new) ==
  IF job.mount = mount /\ job.index < Len(thumbs)
  THEN thumbs' = OwnState(thumbs, job.index + 1, new)
  ELSE UNCHANGED thumbs

\* ghost: note how the renderer ended for the slot
NoteResult(job, result) ==
  IF job.mount = mount /\ job.index < Len(slotResult)
  THEN slotResult' = [slotResult EXCEPT ![job.index + 1] = result]
  ELSE UNCHANGED slotResult

\* the finally block: setIsRendering(false) is part of the slot's new state;
\* the invocation ends and its scaffold gets the 3000 ms removal timer
ThumbEnds(job) ==
  /\ renders' = renders \ {job}
  /\ scaffolds' = {[c EXCEPT !.timer = (c.timer \/ c.job = job.job)] : c \in scaffolds}

\* renderThumbnail after the stagger delay (index * 300 ms): the scaffold
\* with its unique id is appended to document.body
ThumbScaffold(job) ==
  /\ job \in renders /\ job.kind = "thumb" /\ job.phase = "stagger"
  /\ renders' = (renders \ {job}) \cup {[job EXCEPT !.phase = "run"]}
  /\ scaffolds' = scaffolds \cup {[job |-> job.job, label |-> uniqueId(job),
                                   timer |-> FALSE]}
  /\ emitted' = <<>>
  /\ UNCHANGED <<genVars, thumbs, slotResult, imageUrl, renderError, nextJob, mount>>

\* await mermaid.run({nodes: [div], suppressErrors: true}) returns or throws;
\* a throw goes to the catch block: setRenderError(true), setThumbnailUrl('')
ThumbRun(job, outcome) ==
  /\ job \in renders /\ job.kind = "thumb" /\ job.phase = "run"
  /\ IF outcome = "throws"
     THEN /\ SetSlot(job, [thumbnailUrl |-> <<>>, isRendering |-> FALSE,
                           renderError |-> TRUE, starts |-> 1, polls |-> 0])
          /\ NoteResult(job, "throws")
          /\ ThumbEnds(job)
     ELSE /\ renders' = (renders \ {job}) \cup {[job EXCEPT !.phase = "poll"]}
          /\ UNCHANGED <<thumbs, slotResult, scaffolds>>
  /\ emitted' = <<>>
  /\ UNCHANGED <<genVars, imageUrl, renderError, nextJob, mount>>

\* the loop condition of `for (let retry = 0; retry < 5; retry++)`, taken once
\* more than the code takes it
PollOnceMore(retry) == retry <= PollLimit

\* the loop condition of `for (let retry = 0; retry < 5; retry++)`
PollAgain(retry) == retry < PollLimit

\* the poll loop, for an svg that is in the invocation's div from round
\* appearsAt on: every round waits 200 ms, then looks (div.querySelector),
\* and breaks when it finds the svg. polls counts the looks
RECURSIVE pollLoop(_, _)
pollLoop(retry, appearsAt) ==
  IF ~PollAgain(retry) THEN [found |-> FALSE, polls |-> retry]
  ELSE IF appearsAt <= retry + 1 THEN [found |-> TRUE, polls |-> retry + 1]
  ELSE pollLoop(retry + 1, appearsAt)

\* the rounds in which the svg can appear: the first, the last the loop
\* looks at, or one the loop does not wait for
AppearsAt == {1, PollLimit, PollLimit + 1}

\* the poll loop and what follows it, as one step (its rounds touch nothing
\* but the invocation's own div): found -> setThumbnailUrl(data URL),
\* setRenderError(false); not found -> setRenderError(true); then finally
ThumbPoll(job, appearsAt) ==
  LET end == pollLoop(0, appearsAt) IN
  /\ job \in renders /\ job.kind = "thumb" /\ job.phase = "poll"
  /\ IF end.found
     THEN /\ SetSlot(job, [thumbnailUrl |-> Image(job.code), isRendering |-> FALSE,
                           renderError |-> FALSE, starts |-> 1, polls |-> end.polls])
          /\ NoteResult(job, "svg")
     ELSE /\ SetSlot(job, [thumbnailUrl |-> <<>>, isRendering |-> FALSE,
                           renderError |-> TRUE, starts |-> 1, polls |-> end.polls])
          /\ NoteResult(job, "none")
  /\ ThumbEnds(job)
  /\ emitted' = <<>>
  /\ UNCHANGED <<genVars, imageUrl, renderError, nextJob, mount>>

\* renderDiagram after `await mermaid.run({nodes: [div], suppressErrors:
\* false})`: an svg -> setImageUrl and the 1000 ms removal timer; no svg or a
\* throw -> the catch block, which sets the error and schedules nothing
PrimaryRun(job, outcome) ==
  /\ job \in renders /\ job.kind = "primary"
  /\ renders' = renders \ {job}
  /\ IF outcome = "svg"
     THEN /\ imageUrl' = Image(job.code)
          /\ UNCHANGED renderError
          /\ scaffolds' = {[c EXCEPT !.timer = (c.timer \/ c.job = job.job)] :
                            c \in scaffolds}
     ELSE /\ renderError' = MsgRenderFailed
          /\ imageUrl' = <<>>
          /\ UNCHANGED scaffolds
  /\ emitted' = <<>>
  /\ UNCHANGED <<genVars, thumbs, slotResult, nextJob, mount>>

\* a removal timer fires: document.body.removeChild(tempContainer)
CleanupFires(c) ==
  /\ c \in scaffolds /\ c.timer
  /\ scaffolds' = scaffolds \ {c}
  /\ emitted' = <<>>
  /\ UNCHANGED <<genVars, thumbs, slotResult, renders, imageUrl, renderError,
                 nextJob, mount>>

\* ------------------------------------------------------- specification
\* the session: every DiagramGenerator, PromptInput and modal handler, each
\* followed by DiagramDisplay's reaction
Next ==
  \/ (\E s \in PromptTexts : TypePrompt(s)) /\ DisplayFollows /\ Unobserved
  \/ ToggleMany /\ DisplayFollows /\ Unobserved
  \/ Submit /\ DisplayFollows /\ Unobserved
  \/ (\E i \in 1..Len(inflight) : \E data \in ResponseBodies : ResponseOk(i, data))
       /\ DisplayFollows /\ Unobserved
  \/ (\E i \in 1..Len(inflight) : \E f \in Failures : ResponseFail(i, f))
       /\ DisplayFollows /\ Unobserved
  \/ \E index \in 0..(Len(variations) - 1) : onSelect(index) /\ Unobserved
  \/ UseThisOne /\ Unobserved
  \/ NewClick /\ DisplayFollows /\ Unobserved
  \/ OpenImport /\ DisplayFollows /\ Unobserved
  \/ CloseImport /\ DisplayFollows /\ Unobserved
  \/ (\E code \in CodeTexts : ImportSubmit(code)) /\ DisplayFollows /\ Unobserved
  \/ OpenSettings /\ DisplayFollows /\ Unobserved
  \/ CloseSettings /\ DisplayFollows /\ Unobserved
  \/ (\E typed \in KeyTexts : SaveSettings(typed)) /\ DisplayFollows /\ Unobserved

Spec == Init /\ [][Next]_vars

\* the session with a stored credential, together with the gestures on the
\* preview: buttons, wheel and its timer, mouse, touch, and the two toggles
ZoomInit == Init /\ CredentialPresent(openai_api_key)

\* the answers the gestures are explored against: one candidate, present or
\* not, or a set of two non-empty candidates
ZoomBodies ==
  {[mermaid_code |-> c, variations |-> <<>>] : c \in Optional(CodeTexts)}
  \cup {[mermaid_code |-> <<>>, variations |-> <<<<a, b>>>>] : a, b \in CodeTexts \ {<<>>}}

ZoomNext ==
  \/ TypePrompt(<<"p">>) /\ DisplayFollows /\ Unobserved
  \/ Submit /\ DisplayFollows /\ Unobserved
  \/ (\E i \in 1..Len(inflight) : \E data \in ZoomBodies : ResponseOk(i, data))
       /\ DisplayFollows /\ Unobserved
  \/ (\E i \in 1..Len(inflight) : ResponseFail(i, [kind |-> "transport", detail |-> ""]))
       /\ DisplayFollows /\ Unobserved
  \/ \E index \in 0..(Len(variations) - 1) : onSelect(index) /\ Unobserved
  \/ UseThisOne /\ Unobserved
  \/ NewClick /\ DisplayFollows /\ Unobserved
  \/ handleZoomIn /\ Unobserved
  \/ handleZoomOut /\ Unobserved
  \/ handleWheel /\ Unobserved
  \/ WheelTimerFires /\ Unobserved
  \/ handleMouseDown /\ Unobserved
  \/ handleTouchStart /\ Unobserved
  \/ handleZoomToggle /\ Unobserved
  \/ handlePanToggle /\ Unobserved

SpecZoom == ZoomInit /\ [][ZoomNext]_vars

\* the feedback panel and the delivery of its events, on a session that can
\* import a diagram and reset it
FeedbackInit == Init /\ ~openai_api_key.present

FeedbackNext ==
  \/ OpenImport /\ DisplayFollows /\ UNCHANGED renderVars /\ PanelFollows /\ Delivers
  \/ ImportSubmit(<<"A">>) /\ DisplayFollows /\ UNCHANGED renderVars /\ PanelFollows
       /\ Delivers
  \/ NewClick /\ DisplayFollows /\ UNCHANGED renderVars /\ PanelFollows /\ Delivers
  \/ (\E value \in 1..5 : handleStarClick(value))
       /\ DisplayFollows /\ UNCHANGED renderVars /\ Delivers
  \/ (\E text \in {<<>>, <<"g">>} : TypeFeedback(text))
       /\ DisplayFollows /\ UNCHANGED renderVars /\ Delivers
  \/ FeedbackSubmit /\ DisplayFollows /\ UNCHANGED renderVars /\ Delivers
  \/ FeedbackResetFires /\ DisplayFollows /\ UNCHANGED renderVars /\ Delivers
  \/ (\E i \in 1..Len(posts) : DeliveryOk(i))
       /\ DisplayFollows /\ UNCHANGED <<renderVars, feedbackVars>>
  \/ (\E i \in 1..Len(posts) : \E f \in DeliveryFailures : DeliveryFails(i, f))
       /\ DisplayFollows /\ UNCHANGED <<renderVars, feedbackVars>>

SpecFeedback == FeedbackInit /\ [][FeedbackNext]_vars

\* the identity, the stamping and the delivery of telemetry events, on a
\* session that can import a diagram and reload the page, while the clock runs
TrackingInit == Init /\ ~openai_api_key.present

TrackingNext ==
  \/ OpenImport /\ DisplayFollows /\ UNCHANGED <<renderVars, feedbackVars>> /\ Delivers
  \/ ImportSubmit(<<"A">>) /\ DisplayFollows /\ UNCHANGED <<renderVars, feedbackVars>>
       /\ Delivers
  \/ (\E given \in GivenTimestamps : recordActionDirect(given))
       /\ DisplayFollows /\ UNCHANGED <<renderVars, feedbackVars>>
  \/ Tick /\ DisplayFollows /\ UNCHANGED <<renderVars, feedbackVars>>
  \/ (\E i \in 1..Len(posts) : DeliveryOk(i))
       /\ DisplayFollows /\ UNCHANGED <<renderVars, feedbackVars>>
  \/ (\E i \in 1..Len(posts) : \E f \in DeliveryFailures : DeliveryFails(i, f))
       /\ DisplayFollows /\ UNCHANGED <<renderVars, feedbackVars>>
  \/ Reload

SpecTracking == TrackingInit /\ [][TrackingNext]_vars

\* the requests to the generation service and their answers, on a session
\* that can be reset; every answer the service can give
SettleInit == Init /\ CredentialPresent(openai_api_key)

\* the request in flight is answered, one way or another
Answers ==
  /\ \E i \in 1..Len(inflight) :
       \/ \E data \in ZoomBodies : ResponseOk(i, data)
       \/ \E f \in Failures : ResponseFail(i, f)
  /\ DisplayFollows /\ Unobserved

SettleNext ==
  \/ (\E s \in PromptTexts : TypePrompt(s)) /\ DisplayFollows /\ Unobserved
  \/ ToggleMany /\ DisplayFollows /\ Unobserved
  \/ Submit /\ DisplayFollows /\ Unobserved
  \/ Answers
  \/ NewClick /\ DisplayFollows /\ Unobserved

\* the promise of fetch settles: the service answers or the transport fails
SpecSettle == SettleInit /\ [][SettleNext]_vars /\ WF_vars(Answers)

\* the prompt input on a session that can import a diagram and reset it: the
\* textarea, the example buttons and New
PromptNext ==
  \/ (\E s \in PromptEdits : TypePrompt(s)) /\ DisplayFollows /\ Unobserved
  \/ (\E example \in EXAMPLE_PROMPTS : handleExampleClick(example))
       /\ DisplayFollows /\ Unobserved
  \/ OpenImport /\ DisplayFollows /\ Unobserved
  \/ ImportSubmit(<<"A">>) /\ DisplayFollows /\ Unobserved
  \/ NewClick /\ DisplayFollows /\ Unobserved

SpecPrompt == Init /\ [][PromptNext]_vars

\* the renders of the thumbnails and of the primary preview, on a session that
\* generates, edits, selects and confirms
RenderInit == Init /\ CredentialPresent(openai_api_key)

\* the answers the renders are explored against: one candidate, or a set of
\* two different ones
RenderBodies ==
  {[mermaid_code |-> <<<<"A">>>>, variations |-> <<>>],
   [mermaid_code |-> <<>>, variations |-> <<<<<<"A">>, <<SP>>>>>>]}

Rest == UNCHANGED <<feedbackVars, trackingVars>>

RenderNext ==
  \/ TypePrompt(<<"p">>) /\ DisplayFollows /\ RenderFollows /\ Rest
  \/ Submit /\ DisplayFollows /\ RenderFollows /\ Rest
  \/ (\E i \in 1..Len(inflight) : \E data \in RenderBodies : ResponseOk(i, data))
       /\ DisplayFollows /\ RenderFollows /\ Rest
  \/ (\E index \in 0..(Len(variations) - 1) : onSelect(index)) /\ RenderFollows /\ Rest
  \/ UseThisOne /\ RenderFollows /\ Rest
  \/ (\E job \in renders : ThumbScaffold(job)) /\ DisplayFollows /\ Rest
  \/ (\E job \in renders : \E outcome \in {"returns", "throws"} : ThumbRun(job, outcome))
       /\ DisplayFollows /\ Rest
  \/ (\E job \in renders : \E appearsAt \in AppearsAt : ThumbPoll(job, appearsAt))
       /\ DisplayFollows /\ Rest
  \/ (\E job \in renders : \E outcome \in {"svg", "none", "throws"} : PrimaryRun(job, outcome))
       /\ DisplayFollows /\ Rest
  \/ (\E c \in scaffolds : CleanupFires(c)) /\ DisplayFollows /\ Rest

SpecRender == RenderInit /\ [][RenderNext]_vars

\* what is left of render invocation n, a thumbnail's, goes one step further
ThumbStep(n) ==
  /\ \E job \in renders :
       /\ job.job = n
       /\ \/ ThumbScaffold(job)
          \/ \E outcome \in {"returns", "throws"} : ThumbRun(job, outcome)
          \/ \E appearsAt \in AppearsAt : ThumbPoll(job, appearsAt)
  /\ DisplayFollows /\ Rest

\* the timers of renderThumbnail fire and the promise of mermaid.run settles
RenderFairness == \A n \in 1..MaxJobs : WF_vars(ThumbStep(n))

\* the renders of the thumbnails of generated candidates, with their timers
\* firing: requests, their answers, and every render step
ThumbnailsNext ==
  \/ TypePrompt(<<"p">>) /\ DisplayFollows /\ RenderFollows /\ Rest
  \/ Submit /\ DisplayFollows /\ RenderFollows /\ Rest
  \/ (\E i \in 1..Len(inflight) : \E data \in RenderBodies : ResponseOk(i, data))
       /\ DisplayFollows /\ RenderFollows /\ Rest
  \/ \E n \in 1..MaxJobs : ThumbStep(n)
  \/ (\E job \in renders : \E outcome \in {"svg", "none", "throws"} : PrimaryRun(job, outcome))
       /\ DisplayFollows /\ Rest
  \/ (\E c \in scaffolds : CleanupFires(c)) /\ DisplayFollows /\ Rest

SpecThumbnails == RenderInit /\ [][ThumbnailsNext]_vars /\ RenderFairness


\* ================================================================ claims

\* C1: in every reachable session state, isEditing = true implies that
\* sourceText (mermaidCode) is non-empty.
C1_EditingImpliesSource == isEditing => Truthy(mermaidCode)

\* C2: variations is empty or has length >= 2, and selectedIndex is present
\* exactly when variations is non-empty, and is then a valid index.
C2_VariationSetShape ==
  /\ variations = <<>> \/ Len(variations) >= 2
  /\ (selectedVariationIndex # NoIndex) <=> (variations # <<>>)
  /\ selectedVariationIndex # NoIndex => selectedVariationIndex \in 0..(Len(variations) - 1)

\* a pending set in which the user moved the selection off the default candidate
C2_Witness ==
  /\ Len(variations) >= 2
  /\ selectedVariationIndex = 1
  /\ emitted # <<>> /\ emitted[1].action_type = "variation_hover"

\* C3: at most one generate/edit request is in flight at any time, so the
\* request a response settles is always the only outstanding one.
C3_SingleFlight == Len(inflight) <= 1

\* a request is outstanding while the form holds a prompt that could be submitted
C3_Witness ==
  /\ Len(inflight) = 1
  /\ isLoading
  /\ Truthy(Trim(prompt))

\* C4: while a request is in flight nothing changes sourceText, isEditing or
\* diagramId, so the response (and its telemetry event, which carries the
\* diagramId of submit time) meets the session it was submitted from.
C4_NoSupersedeInFlight ==
  \A i \in 1..Len(inflight) :
    /\ inflight[i].pre.mermaidCode = mermaidCode
    /\ inflight[i].pre.isEditing = isEditing
    /\ inflight[i].pre.diagramId = diagramId
    /\ inflight[i].diagramId = diagramId

\* C5: when an edit request fails, sourceText equals its value just before the
\* submit and the session is back in Ready (not in flight, isEditing true).
C5_FailedEditKeepsSource ==
  [][\A i \in 1..Len(inflight) : \A f \in Failures :
       (ResponseFail(i, f) /\ inflight[i].isEdit)
         => /\ mermaidCode' = inflight[i].pre.mermaidCode
            /\ ~isLoading'
            /\ isEditing']_vars

\* C6 (as stated): when a request fails, sourceText, variations, selectedIndex,
\* isEditing, diagramId and currentPrompt all equal their pre-submit values.
C6_FailureRestoresPreSubmit ==
  [][\A i \in 1..Len(inflight) : \A f \in Failures :
       ResponseFail(i, f) => Snapshot' = inflight[i].pre]_vars

\* C6 (amended): the failure handling changes only the error message and the
\* in-flight flag; sourceText, isEditing, diagramId, variations, selectedIndex
\* and currentPrompt keep the values they had when the failure arrived, which
\* are an empty variations, an absent selectedIndex and the submitted prompt as
\* currentPrompt (the submit's own changes, which are not rolled back).
C6_FailureChangesOnlyErrorAndLoading ==
  [][\A i \in 1..Len(inflight) : \A f \in Failures :
       ResponseFail(i, f)
         => /\ Snapshot' = Snapshot
            /\ previousMermaidCodeRef' = previousMermaidCodeRef
            /\ variations' = <<>>
            /\ selectedVariationIndex' = NoIndex
            /\ currentPrompt' = inflight[i].prompt
            /\ error' = FailureMessage(f)
            /\ ~isLoading']_vars

\* a failed edit of an existing diagram has been surfaced
C6_Witness ==
  /\ error = MsgTransport
  /\ ~isLoading
  /\ inflight = <<>>
  /\ isEditing /\ Truthy(mermaidCode)
  /\ Truthy(currentPrompt)

\* C7: a submit made while the credential is absent sends no request and
\* records no telemetry event; every request sent carries a credential.
C7_NoRequestWithoutCredential ==
  [][/\ (Submit /\ ~(openai_api_key.present /\ openai_api_key.value # <<>>))
          => (inflight' = inflight /\ emitted' = <<>> /\ ~isLoading')
     /\ \A i \in 1..Len(inflight') : inflight'[i].key # <<>>]_vars

\* the gate refused a submit of an existing diagram's edit
C7_Witness ==
  /\ error = MsgNeedKey
  /\ isSettingsOpen
  /\ ~CredentialPresent(openai_api_key)
  /\ inflight = <<>>
  /\ hasExistingDiagram
  /\ Truthy(Trim(prompt))

\* C8: confirm on a pending variation set with selectedIndex = i yields
\* sourceText = variations[i], variations empty and selectedIndex absent,
\* whatever the candidates contain.
C8_ConfirmCollapses ==
  [][ConfirmSelection
       => /\ mermaidCode' = VariationAt(variations, selectedVariationIndex)
          /\ variations' = <<>>
          /\ selectedVariationIndex' = NoIndex]_vars

\* C9: a submit that passes the gate sends an edit call {prompt, sourceText}
\* exactly when sourceText is non-empty and isEditing is true at submit time,
\* and a generate call {prompt, num_variations} otherwise.
C9_DispatchPolicy ==
  [][(Submit /\ Len(inflight') > Len(inflight))
       => LET r == inflight'[Len(inflight')]
              edit == mermaidCode # <<>> /\ isEditing IN
          /\ edit => /\ r.url = EDIT_API_URL
                     /\ r.body = [prompt |-> prompt, existing_mermaid_code |-> mermaidCode]
          /\ ~edit => /\ r.url = GENERATE_URL
                      /\ r.body = [prompt |-> prompt,
                                   num_variations |-> IF generateMany THEN 3 ELSE 1]]_vars

\* an edit call is outstanding for the diagram on display
C9_Witness ==
  /\ Len(inflight) = 1
  /\ inflight[1].url = EDIT_API_URL
  /\ inflight[1].body.existing_mermaid_code = mermaidCode
  /\ Truthy(mermaidCode)

\* the one candidate of a body that carries exactly one, as <<candidate>>;
\* <<>> for any other body
SingleCandidate(data) ==
  IF data.variations = <<>> \/ data.variations[1] = <<>>
  THEN data.mermaid_code
  ELSE IF Len(data.variations[1]) = 1 /\ data.mermaid_code = <<>>
  THEN data.variations[1]
  ELSE <<>>

\* C10: a successful response with exactly one candidate, given as mermaid_code
\* or as a one-element variations array, makes it the sourceText with
\* variations empty; one with two or more candidates stores them all.
C10_ResponseCandidates ==
  [][\A i \in 1..Len(inflight) : \A data \in ResponseBodies :
       ResponseOk(i, data)
         => /\ SingleCandidate(data) # <<>>
                 => (mermaidCode' = SingleCandidate(data)[1] /\ variations' = <<>>)
            /\ (data.variations # <<>> /\ Len(data.variations[1]) >= 2)
                 => (variations' = data.variations[1]
                     /\ selectedVariationIndex' # NoIndex)]_vars

\* C11: importing a source text whose trim is non-empty, from any session
\* state (a request may be in flight), stores exactly that text, sets
\* isEditing, mints a diagramId that no earlier state and no request in flight
\* holds (all of those lie in 0..nextId), clears the variation set and its
\* index, and sends no request.
C11_ImportInstallsSource ==
  [][\A code \in CodeTexts :
       ImportSubmit(code) =>
         /\ mermaidCode' = code
         /\ isEditing'
         /\ diagramId \in 0..nextId
         /\ \A i \in 1..Len(inflight) : inflight[i].diagramId \in 0..nextId
         /\ diagramId' \notin 0..nextId
         /\ variations' = <<>>
         /\ selectedVariationIndex' = NoIndex
         /\ inflight' = inflight]_vars

\* an import made while a request was in flight has just been applied
C11_Witness ==
  /\ emitted # <<>>
  /\ emitted[1].action_type = "new_button"
  /\ Truthy(mermaidCode)
  /\ emitted[1].mermaid_code = mermaidCode
  /\ isEditing
  /\ diagramId > 0
  /\ inflight # <<>>

\* C12: once a zoom (resp. pan) event has been recorded for the current
\* diagramId, no step records another zoom (resp. pan) event for that
\* diagramId until a generation, an edit, a variation confirmation or a reset
\* has happened; thumbnail clicks and gestures in between do not re-arm.
C12_RecordOncePerIdentity ==
  [][/\ Recorded("zoom", diagramId) => ~zoomSent
     /\ Recorded("pan", diagramId) => ~panSent]_vars

\* C13 as stated: a button zoom records an event exactly when none is latched
\* for diagramId, so two in a row record one; and a successful edit applied
\* while the latch is set changes diagramId and leaves the latch open.
C13_EditChangesIdAndRearms ==
  [][/\ (handleZoomIn \/ handleZoomOut) =>
          /\ Recorded("zoom", diagramId) <=> zoomRecordedRef # diagramId
          /\ zoomRecordedRef' = diagramId
     /\ \A i \in 1..Len(inflight) : \A data \in ZoomBodies :
          (ResponseOk(i, data) /\ inflight[i].isEdit /\ zoomRecordedRef = diagramId) =>
            /\ diagramId' # diagramId
            /\ zoomRecordedRef' # diagramId']_vars

\* C13 (amended): a button zoom, and the wheel timer for its own identifier,
\* record an event exactly when none is latched, and then latch it, so two
\* zoom gestures in a row record one event; a successful edit keeps diagramId
\* and opens the latch exactly when it changes mermaidCode; the next zoom
\* gesture then records a second event with the same diagramId.
C13_ZoomOncePerSource ==
  [][/\ (handleZoomIn \/ handleZoomOut) =>
          /\ Recorded("zoom", diagramId) <=> zoomRecordedRef # diagramId
          /\ zoomRecordedRef' = diagramId
     /\ handleWheel => emitted' = <<>>
     /\ WheelTimerFires =>
          /\ Recorded("zoom", zoomTrackTimeoutRef[1].diagramId)
               <=> zoomRecordedRef # zoomTrackTimeoutRef[1].diagramId
          /\ zoomRecordedRef' = zoomTrackTimeoutRef[1].diagramId
     /\ \A i \in 1..Len(inflight) : \A data \in ZoomBodies :
          (ResponseOk(i, data) /\ inflight[i].isEdit) =>
            /\ diagramId' = diagramId
            /\ zoomRecordedRef' = IF mermaidCode' # mermaidCode
                                  THEN NoRecord ELSE zoomRecordedRef]_vars

\* the second zoom event of one diagramId has just been recorded, after an
\* edit replaced the source the first one was recorded on
C13_Witness ==
  /\ zoomCount = 2
  /\ emitted # <<>>
  /\ emitted[1].action_type = "zoom"
  /\ emitted[1].diagram_id = diagramId
  /\ Truthy(previousMermaidCodeRef)
  /\ mermaidCode # previousMermaidCodeRef
  /\ variations = <<>>
  /\ ~isLoading

\* C14: a feedback submission with rating 0 (no star chosen) hands no event
\* to recordAction; with a rating in 1..5 and any text, the empty one
\* included, it hands over exactly one feedback event, carrying that rating
\* and text, and one request leaves for the endpoint; every feedback event
\* awaiting delivery carries a rating in 1..5.
C14_FeedbackNeedsRating ==
  [][/\ (FeedbackSubmit /\ Delivers) =>
          IF rating = 0
          THEN emitted' = <<>> /\ posts' = posts
          ELSE /\ rating \in 1..5
               /\ emitted' = <<trackFeedback(rating, feedbackText, diagramId, mermaidCode)>>
               /\ posts' = Append(posts, posts'[Len(posts')])
               /\ posts'[Len(posts')].event = emitted'[1]
     /\ \A k \in 1..Len(posts') :
          posts'[k].event.action_type = "feedback" => posts'[k].event.rating \in 1..5]_vars

\* a feedback event with a rating and no text awaits delivery
C14_Witness ==
  \E k \in 1..Len(posts) :
    /\ posts[k].event.action_type = "feedback"
    /\ posts[k].event.feedback_text = <<>>
    /\ posts[k].event.rating \in 1..5
    /\ isSubmitted

\* C16: when the delivery of an event fails (a non-2xx status, with or
\* without a readable body, or a transport error) recordAction's promise
\* still resolves, the payload is not sent again, nothing is written to
\* localStorage, and no session state, the displayed error included, and no
\* feedback panel state changes.
C16_FailedDeliveryIsDropped ==
  [][\A i \in 1..Len(posts) : \A f \in DeliveryFailures :
       DeliveryFails(i, f) =>
         /\ ~rejected'
         /\ posts' = Without(posts, i)
         /\ uml_agent_user_id' = uml_agent_user_id
         /\ openai_api_key' = openai_api_key
         /\ UNCHANGED <<sessionVars, isLoading, error, feedbackVars>>]_vars

\* the delivery of an event has failed: only the console tells, the diagram
\* is still shown, nothing awaits delivery and no error is displayed
C16_Witness ==
  /\ consoleError
  /\ posts = <<>>
  /\ handed # {}
  /\ Truthy(mermaidCode)
  /\ error = ""
  /\ ~rejected

\* C17: every event handed to the endpoint carries a user id, a session id
\* and a non-empty timestamp; the timestamp is the one the caller passed when
\* it passed a non-empty one, and the time of the call otherwise (a missing
\* or empty timestamp, as every track* helper leaves it).
C17_EventsAreStamped ==
  [][/\ \A k \in 1..Len(posts') :
          /\ posts'[k].user_id # Null
          /\ posts'[k].session_id # Null
          /\ Truthy(posts'[k].timestamp)
     /\ \A given \in GivenTimestamps :
          recordActionDirect(given) =>
            posts'[Len(posts')].timestamp =
              IF given \in {<<>>, <<<<>>>>} THEN toISOString(now) ELSE given[1]
     /\ (emitted' # <<>> /\ Delivers) =>
          posts'[Len(posts')].timestamp = toISOString(now)]_vars

\* an event stamped by its caller awaits delivery after the clock has moved
C17_Witness ==
  /\ now > 0
  /\ \E k \in 1..Len(posts) :
       /\ posts[k].timestamp = <<"c">>
       /\ posts[k].user_id # Null
       /\ posts[k].session_id # Null

\* C18: all events ever handed over carry the one user id, which is the
\* stored item; events of one page load carry one session id, events of
\* different page loads carry different ones; the stored item is never a
\* session id, and after a reload no session id is left until the next event.
C18_StableUserFreshSession ==
  /\ \A a, b \in handed :
       /\ a.user_id = b.user_id
       /\ (a.pageLoad = b.pageLoad) <=> (a.session_id = b.session_id)
  /\ \A a \in handed :
       /\ uml_agent_user_id = a.user_id
       /\ uml_agent_user_id # a.session_id
       /\ a.pageLoad = pageLoad => currentSessionId = a.session_id
  /\ (\A a \in handed : a.pageLoad # pageLoad) => currentSessionId = Null

\* events were handed over before and after a reload
C18_Witness ==
  \E a, b \in handed : a.pageLoad # b.pageLoad

\* C15: when the variation slots render concurrently and the renderer fails
\* (throws, or yields no svg) for one slot, that slot ends in the error
\* state without an image, every slot whose renderer succeeded ends rendered
\* with the image of its own source, and no slot's render is started more than
\* once while its source and index are unchanged
C15_SlotsAreIndependent ==
  \A k \in 1..Len(thumbs) :
    /\ slotResult[k] = "svg" =>
         /\ thumbs[k].thumbnailUrl = Image(variations[k])
         /\ ~thumbs[k].renderError
         /\ ~thumbs[k].isRendering
    /\ slotResult[k] \in {"none", "throws"} =>
         /\ thumbs[k].thumbnailUrl = <<>>
         /\ thumbs[k].renderError
         /\ ~thumbs[k].isRendering
    /\ thumbs[k].starts <= 1

\* two slots were rendered together: the renderer failed for one of them and
\* succeeded for another, which shows its own image
C15_Witness ==
  /\ Len(thumbs) >= 2
  /\ \E i, j \in 1..Len(thumbs) :
       /\ i # j
       /\ slotResult[i] \in {"none", "throws"}
       /\ thumbs[i].renderError
       /\ slotResult[j] = "svg"
       /\ thumbs[j].thumbnailUrl = Image(variations[j])
       /\ variations[i] # variations[j]

\* C19: every off-screen scaffold in document.body belongs to a render that is
\* still running, or has its removal timer pending, so that it is removed
\* after the render ends whether the render succeeded or failed
C19_ScaffoldsGetRemoved ==
  \A c \in scaffolds : c.timer \/ \E job \in renders : job.job = c.job

\* C20: no render labels its scaffold with the diagram identifier, and two
\* renders that overlap in time never use the same scaffold identifier
C20_ScaffoldIdsAreRenderScoped ==
  \A c, d \in scaffolds :
    /\ c.label # primaryId(diagramId)
    /\ (/\ c.job # d.job
        /\ \E job \in renders : job.job = c.job
        /\ \E job \in renders : job.job = d.job) => c.label # d.label

\* C21: diagramId is changed only by New and Import: a submit, a successful
\* or failed generate/edit response, a variation selection and a variation
\* confirmation all leave it unchanged
C21_IdChangedOnlyByNewAndImport ==
  [][diagramId' # diagramId =>
       /\ NewClick \/ \E code \in CodeTexts : ImportSubmit(code)
       /\ ~Submit
       /\ \A i \in 1..Len(inflight) : \A data \in ResponseBodies : ~ResponseOk(i, data)
       /\ \A i \in 1..Len(inflight) : \A f \in Failures : ~ResponseFail(i, f)
       /\ \A index \in 0..(Len(variations) - 1) : ~onSelect(index)
       /\ ~UseThisOne]_vars

\* a diagram was generated as a set of candidates, one of them was confirmed
\* and then edited, all under the identifier the session started with
C21_Witness ==
  /\ diagramId = 0
  /\ isEditing
  /\ Truthy(mermaidCode)
  /\ variations = <<>>
  /\ previousMermaidCodeRef # <<>>
  /\ ~isLoading

\* C22: every variation-slot render terminates. The svg is looked for at
\* most PollLimit times; a slot is in the rendering state only while its
\* render invocation is running; a slot whose render ended shows either an
\* image or the error, never both and never neither; and a slot in the
\* rendering state leaves it
C22_ThumbnailRendersTerminate ==
  /\ [](\A k \in 1..Len(thumbs) :
          /\ thumbs[k].polls <= PollLimit
          /\ thumbs[k].isRendering =>
               \E job \in renders :
                 job.kind = "thumb" /\ job.mount = mount /\ job.index = k - 1
          /\ slotResult[k] = "pending" => thumbs[k].isRendering
          /\ slotResult[k] \in {"svg", "none", "throws"} =>
               /\ ~thumbs[k].isRendering
               /\ (thumbs[k].thumbnailUrl # <<>>) # thumbs[k].renderError
               /\ slotResult[k] = "none" => thumbs[k].polls = PollLimit)
  /\ \A k \in 1..MaxVariations :
       (Len(thumbs) >= k /\ thumbs[k].isRendering)
         ~> (Len(thumbs) < k \/ ~thumbs[k].isRendering)

\* one slot found its svg at the last look, another gave up after it
C22_Witness ==
  \E i, j \in 1..Len(thumbs) :
    /\ slotResult[i] = "svg" /\ thumbs[i].polls = PollLimit
    /\ slotResult[j] = "none" /\ thumbs[j].polls = PollLimit

\* C23: a wheel event on a diagram whose zoom is not yet recorded emits
\* nothing and (re)starts the quiet period; when the quiet period elapses
\* exactly one zoom event is emitted, unless a button zoom recorded the event
\* during the quiet period, and then the timer emits nothing
C23_WheelZoomIsDebounced ==
  [][/\ handleWheel => emitted' = <<>>
     /\ WheelTimerFires =>
          IF zoomTrackTimeoutRef[1].recorded
          THEN emitted' = <<>>
          ELSE /\ Len(emitted') = 1
               /\ emitted'[1].action_type = "zoom"]_vars

\* C24: over any sequence of prompt edits (typing, pasting, example clicks,
\* New) a prompt_update event is emitted only when the prompt before the edit
\* was not empty, the edited prompt is longer than MinTrackedLength and the two
\* lengths differ by more than MinLengthChange; the event carries both
\* prompts; emptying the prompt emits none
C24_PromptUpdateOverThreshold ==
  [][\A k \in 1..Len(emitted') :
       emitted'[k].action_type = "prompt_update" =>
         /\ prompt # <<>>
         /\ Len(prompt') > MinTrackedLength
         /\ Abs(Len(prompt') - Len(prompt)) > MinLengthChange
         /\ emitted'[k].prompt = prompt'
         /\ emitted'[k].previous_prompt = prompt]_vars

\* a prompt_update was just emitted for a pasted text, on a diagram that was
\* created after a reset
C24_Witness ==
  /\ Len(emitted) = 1
  /\ emitted[1].action_type = "prompt_update"
  /\ emitted[1].prompt = prompt
  /\ Len(emitted[1].previous_prompt) = 6
  /\ Len(prompt) = 17
  /\ diagramId # 0

\* C25: New, from any state in which it is enabled, resets the session to
\* Idle: no source, no variations, no selected index, not editing, no current
\* prompt, no error, and a diagramId different from the previous one; and
\* isEditing becomes false by no other operation
C25_NewResetsToIdle ==
  [][/\ NewClick =>
          /\ mermaidCode' = <<>>
          /\ variations' = <<>>
          /\ selectedVariationIndex' = NoIndex
          /\ ~isEditing'
          /\ currentPrompt' = <<>>
          /\ error' = ""
          /\ ~isLoading'
          /\ diagramId' # diagramId
     /\ (isEditing /\ ~isEditing') => NewClick]_vars

\* New was just clicked on a diagram that was being edited
C25_Witness ==
  /\ Len(emitted) = 1
  /\ emitted[1].action_type = "new_button"
  /\ Truthy(emitted[1].mermaid_code)
  /\ mermaidCode = <<>>
  /\ ~isEditing
  /\ diagramId # 0

\* C26: every accepted submit settles. Whatever the answer (success, non-2xx,
\* transport error, unparsable body), the step that takes it ends the
\* in-flight state and enables submission again; the session is in flight
\* only while a request awaits its answer; so a session in flight comes to
\* one that is not, with submission enabled
C26_SubmitSettles ==
  /\ [][(\E i \in 1..Len(inflight) :
           \/ \E data \in ZoomBodies : ResponseOk(i, data)
           \/ \E f \in Failures : ResponseFail(i, f))
          => (~isLoading' /\ SubmitEnabled' /\ inflight' = <<>>)]_vars
  /\ [](isLoading => Len(inflight) = 1)
  /\ isLoading ~> (~isLoading /\ SubmitEnabled)

\* a request has failed and the form can be submitted again
C26_Witness ==
  /\ error \in {MsgTransport, MsgParse, MsgFailedDefault}
  /\ ~isLoading
  /\ SubmitEnabled
  /\ inflight = <<>>
  /\ currentPrompt # <<>>

\* C27: primary-preview renders are race-safe: once every started render of
\* the preview has completed, the image shown, if any, is the render of the
\* current source, never that of an earlier one
C27_PreviewShowsCurrentSource ==
  (\A job \in renders : job.kind # "primary")
    => (imageUrl = <<>> \/ imageUrl = Image(mermaidCode))

\* C28: each successful generate/edit response emits exactly one telemetry
\* event, diagram_edited when the request went to the edit endpoint and
\* diagram_generated otherwise, carrying the submitted prompt and the new
\* source text; a failed request emits none
C28_OneEventPerAnswer ==
  [][\A i \in 1..Len(inflight) :
       /\ \/ /\ Len(emitted') = 1
             /\ emitted'[1].action_type =
                  (IF inflight[i].url = EDIT_API_URL THEN "diagram_edited"
                                                     ELSE "diagram_generated")
             /\ emitted'[1].prompt = inflight[i].body.prompt
             /\ emitted'[1].mermaid_code = mermaidCode'
          \/ \A data \in ResponseBodies : ~ResponseOk(i, data)
       /\ \/ emitted' = <<>>
          \/ \A f \in Failures : ~ResponseFail(i, f)]_vars

\* an edit was just answered: its event carries the new source text
C28_Witness ==
  /\ Len(emitted) = 1
  /\ emitted[1].action_type = "diagram_edited"
  /\ emitted[1].mermaid_code = mermaidCode
  /\ Truthy(mermaidCode)
  /\ emitted[1].prompt = currentPrompt

\* C29: whenever variations is non-empty the source text is the selected
\* candidate, variations[selectedIndex]: a response with candidates shows
\* candidate 0, and each selection of a candidate that is there sets the index
\* and the source text together, sends no request and leaves variations alone
C29_SourceIsSelectedCandidate ==
  /\ [](variations # <<>> =>
          /\ selectedVariationIndex \in 0..(Len(variations) - 1)
          /\ mermaidCode = variations[selectedVariationIndex + 1])
  /\ [][/\ (variations = <<>> /\ variations' # <<>>) =>
             (selectedVariationIndex' = 0 /\ mermaidCode' = variations'[1])
        /\ \A index \in 0..(Len(variations) - 1) :
             (onSelect(index) /\ Truthy(variations[index + 1])) =>
               /\ selectedVariationIndex' = index
               /\ mermaidCode' = variations[index + 1]
               /\ UNCHANGED <<variations, inflight, isLoading>>]_vars

\* the second of two different candidates is selected and shown
C29_Witness ==
  /\ Len(variations) >= 2
  /\ selectedVariationIndex = 1
  /\ mermaidCode = variations[2]
  /\ variations[1] # variations[2]
  /\ Truthy(mermaidCode)

\* C30: every zoom or pan telemetry event carries the diagramId and the
\* source text that are the session's current ones when the event is
\* emitted, also when it comes from a wheel timer started before New, a
\* variation click or a response
C30_GestureEventsAreCurrent ==
  [][\A k \in 1..Len(emitted') :
       emitted'[k].action_type \in {"zoom", "pan"} =>
         /\ emitted'[k].diagram_id = diagramId'
         /\ emitted'[k].mermaid_code = mermaidCode']_vars

====
